---- MODULE Spec2Model ----
(***************************************************************************)
(* xbutil2 read-mem / write-mem: the bank resolution of XBMemAccess        *)
(* (getDDRBanks, readWriteHelper) and the per-bank, per-block transfer of  *)
(* OO_MemRead (readBank) and OO_MemWrite (writeBank).                      *)
(*                                                                         *)
(* Addresses and sizes are unsigned integers of AddrBits bits (the code's  *)
(* uint64_t / unsigned long long, scaled down); every sum, difference and  *)
(* product on them is taken modulo 2^AddrBits.                             *)
(***************************************************************************)
EXTENDS Integers, Naturals, Sequences, FiniteSets, TLC

\* ------------------------------------------------------------------ bounds

\* Width of an address / size word.
AddrBits == 20

\* Largest number of entries of the raw memory topology.
MaxRaw == 2

\* ------------------------------------------------------- program constants

\* errno's EINVAL, returned negated by getDDRBanks and readWriteHelper.
EINVAL == 22

\* blockSize of readBank and writeBank (128KB).
blockSize == 131072

\* Bytes per KB: the factor of m_size*1024 in getDDRBanks.
KB == 1024

\* -------------------------------------------------------------- arithmetic

Modulus == 2 ^ AddrBits

Word == 0 .. (Modulus - 1)

\* Unsigned addition, subtraction and multiplication of the word width.
Add(a, b) == (a + b) % Modulus

Sub(a, b) == (a + Modulus - b) % Modulus

Mul(a, b) == (a * b) % Modulus

Min(a, b) == IF a < b THEN a ELSE b

\* ------------------------------------------------------------ raw topology

\* One m_mem_data entry of the device's mem_topology.
MemData(used, type, base, sizeKB) ==
  [m_used |-> used, m_type |-> type, m_base_address |-> base, m_size |-> sizeKB]

\* Mutant of Selected: a used streaming entry is selected as well.
Selected_UsedOnly(e) == e.m_used

\* The banks of the topology that the code selects: used and not streaming.
Selected(e) == e.m_used /\ e.m_type # "MEM_STREAMING"

\* mem_bank_t and its constructor.
mem_bank_t(aAddr, aSize, aIndex) ==
  [m_base_address |-> aAddr, m_size |-> aSize, m_index |-> aIndex]

\* The comparison of the sort in getDDRBanks.
BankLess(a, b) == a.m_base_address < b.m_base_address

\* Insert bank b into the sorted sequence s, before the first greater one.
RECURSIVE InsertBank(_, _)
InsertBank(s, b) ==
  IF s = <<>> THEN <<b>>
  ELSE IF BankLess(b, Head(s)) THEN <<b>> \o s
  ELSE <<Head(s)>> \o InsertBank(Tail(s), b)

\* Mutant of SortBanks: the banks stay in the order of the raw topology.
SortBanks_None(s) == s

\* std::sort of the bank vector by base address.
RECURSIVE SortBanks(_)
SortBanks(s) ==
  IF s = <<>> THEN <<>> ELSE InsertBank(SortBanks(Tail(s)), Head(s))

\* The loop of getDDRBanks over entries i..m_count-1 (0-based index i).
RECURSIVE CollectBanks(_, _, _)
CollectBanks(data, i, aBanks) ==
  IF i >= Len(data) THEN aBanks
  ELSE CollectBanks(data, i + 1,
         IF Selected(data[i + 1])
         THEN Append(aBanks, mem_bank_t(data[i + 1].m_base_address,
                                        Mul(data[i + 1].m_size, KB), i))
         ELSE aBanks)

\* getDDRBanks: the value returned and the bank vector it leaves.
getDDRBanks(raw, aBanks) ==
  IF raw.empty \/ raw.m_count = 0
  THEN [ret |-> -EINVAL, aBanks |-> aBanks]
  ELSE [ret |-> raw.m_count,
        aBanks |-> SortBanks(CollectBanks(raw.m_mem_data, 0, aBanks))]

\* ---------------------------------------------------------- readWriteHelper

\* The outcomes of vec_banks.front() on an empty vector (undefined behaviour):
\* the process dies, or some word is read.
FrontOfEmpty ==
  {[crash |-> TRUE, word |-> 0]}
    \cup {[crash |-> FALSE, word |-> w] : w \in {0, 4096, Modulus - 1}}

\* Mutant of DefaultStart: a start address of 0 is left as it is.
DefaultStart_Keep(aStartAddr, banks, ub) == aStartAddr

\* Line 121: a start address of 0 becomes the base address of the first bank.
\* ub is the outcome of front() when the vector is empty.
DefaultStart(aStartAddr, banks, ub) ==
  IF aStartAddr = 0
  THEN (IF banks = <<>> THEN ub.word ELSE Head(banks).m_base_address)
  ELSE aStartAddr

\* Line 121 reads front() of an empty vector and the process dies of it.
FrontCrashes(aStartAddr, banks, ub) ==
  aStartAddr = 0 /\ banks = <<>> /\ ub.crash

\* Mutant of ContainsStart: the bank's end address is taken as inside it.
ContainsStart_EndInside(item, startAddr) ==
  /\ startAddr >= item.m_base_address
  /\ startAddr <= Add(item.m_base_address, item.m_size)

\* The predicate of the find_if of line 126.
ContainsStart(item, startAddr) ==
  /\ startAddr >= item.m_base_address
  /\ startAddr < Add(item.m_base_address, item.m_size)

\* Mutant of FindStartBank: the first bank is taken whatever it holds.
FindStartBank_Begin(banks, i, startAddr) == i

\* std::find_if from position i: the first position whose bank holds
\* startAddr, Len(banks) + 1 (end()) when there is none.
RECURSIVE FindStartBank(_, _, _)
FindStartBank(banks, i, startAddr) ==
  IF i > Len(banks) THEN i
  ELSE IF ContainsStart(banks[i], startAddr) THEN i
  ELSE FindStartBank(banks, i + 1, startAddr)

\* std::accumulate of m_size over positions i..end, starting from result.
RECURSIVE AccumulateSize(_, _, _)
AccumulateSize(banks, i, result) ==
  IF i > Len(banks) THEN result
  ELSE AccumulateSize(banks, i + 1, Add(result, banks[i].m_size))

\* Lines 134-137: the bytes available from startAddr to the end of the banks.
AvailableSize(banks, startbank, startAddr) ==
  Sub(AccumulateSize(banks, startbank, 0),
      Sub(startAddr, banks[startbank].m_base_address))

\* Mutant of SizeExceeds: a size equal to the available size is refused.
SizeExceeds_Equal(aSize, availableSize) == aSize >= availableSize

\* Line 138: the size check.
SizeExceeds(aSize, availableSize) == aSize > availableSize

\* Mutant of DefaultSize: the size becomes 0.
DefaultSize_Zero(aSize, availableSize) == 0

\* Mutant of DefaultSize: a size of 0 is left as it is.
DefaultSize_None(aSize, availableSize) == aSize

\* Line 145: a size of 0 becomes the available size.
DefaultSize(aSize, availableSize) ==
  IF aSize = 0 THEN availableSize ELSE aSize

\* Mutant of AvailableBankSize: the start bank's offset is taken for what is
\* left of it.
AvailableBankSize_Offset(bank, isStart, startAddr) ==
  IF ~isStart THEN bank.m_size
  ELSE Sub(startAddr, bank.m_base_address)

\* available_bank_size of the bank walks (helper lines 153-158, read 178-184,
\* write 219-225): what is left of the start bank, all of a later bank.
AvailableBankSize(bank, isStart, startAddr) ==
  IF ~isStart THEN bank.m_size
  ELSE Sub(bank.m_size, Sub(startAddr, bank.m_base_address))

\* Mutant of AccessSize: the transfer is not cut at the end of the bank.
AccessSize_Uncut(tsize, available_bank_size) == tsize

\* accesssize / readsize / writesize: the part of the bank the transfer takes.
AccessSize(tsize, available_bank_size) ==
  IF tsize > available_bank_size THEN available_bank_size ELSE tsize

\* Mutant of CountBanks: every bank from the start bank on is counted.
CountBanks_ToEnd(banks, it, startbank, startAddr, tsize, bankcnt) ==
  bankcnt + (Len(banks) - it + 1)

\* Mutant of CountBanks: the bank is counted before tsize is tested.
RECURSIVE CountBanks_CountFirst(_, _, _, _, _, _)
CountBanks_CountFirst(banks, it, startbank, startAddr, tsize, bankcnt) ==
  IF it > Len(banks) THEN bankcnt
  ELSE IF tsize # 0
  THEN CountBanks_CountFirst(banks, it + 1, startbank, startAddr,
         Sub(tsize, AccessSize(tsize,
                      AvailableBankSize(banks[it], it = startbank, startAddr))),
         bankcnt + 1)
  ELSE bankcnt + 1

\* Lines 151-167: the walk that counts the banks the transfer straddles.
RECURSIVE CountBanks(_, _, _, _, _, _)
CountBanks(banks, it, startbank, startAddr, tsize, bankcnt) ==
  IF it > Len(banks) THEN bankcnt
  ELSE IF tsize # 0
  THEN CountBanks(banks, it + 1, startbank, startAddr,
         Sub(tsize, AccessSize(tsize,
                      AvailableBankSize(banks[it], it = startbank, startAddr))),
         bankcnt + 1)
  ELSE bankcnt

\* readWriteHelper: the value returned, the in/out arguments as it leaves
\* them, the error it printed, and whether the process died in front().
\* startbank 0 is the caller's iterator left as it was (never assigned).
readWriteHelper(raw, aStartAddr, aSize, ub) ==
  LET got == getDDRBanks(raw, <<>>)
      nbanks == got.ret
      banks == got.aBanks
      res(ret, start, size, sb, err, crashed) ==
        [ret |-> ret, aStartAddr |-> start, aSize |-> size, vec_banks |-> banks,
         startbank |-> sb, err |-> err, crashed |-> crashed]
  IN IF nbanks = 0
     THEN res(-EINVAL, aStartAddr, aSize, 0, "NoTopology", FALSE)
     ELSE LET startAddr == DefaultStart(aStartAddr, banks, ub)
          IN IF FrontCrashes(aStartAddr, banks, ub)
             THEN res(0, aStartAddr, aSize, 0, "none", TRUE)
             ELSE LET startbank == FindStartBank(banks, 1, startAddr)
                  IN IF startbank = Len(banks) + 1
                     THEN res(-EINVAL, startAddr, aSize, startbank,
                              "StartNotValid", FALSE)
                     ELSE LET availableSize ==
                                AvailableSize(banks, startbank, startAddr)
                          IN IF SizeExceeds(aSize, availableSize)
                             THEN res(-EINVAL, startAddr, aSize, startbank,
                                      "CannotAccess", FALSE)
                             ELSE LET size == DefaultSize(aSize, availableSize)
                                  IN res(CountBanks(banks, startbank, startbank,
                                                    startAddr, size, 0),
                                         startAddr, size, startbank, "none",
                                         FALSE)

\* ------------------------------------------------------------------- state

VARIABLES
  raw_mem,       \* the device's raw mem_topology: empty (no buffer), or count and entries
  cmd,           \* "none", "read" (OO_MemRead) or "write" (OO_MemWrite)
  pc,            \* "idle", "walk" (head of execute's bank loop), "chunk" (head of
                 \* readBank's / writeBank's block loop), "done", "crashed"
  m_baseAddress, \* the address option, as a number
  m_sizeBytes,   \* the size option, as a number
  m_fill,        \* write: the fill option is given (else the input file is used)
  inputBufSize,  \* write: bytes allocated for inputBuf
  baseAddress,   \* execute's baseAddress
  sizeBytes,     \* execute's sizeBytes
  vec_banks,     \* execute's bank vector
  startbank,     \* position in vec_banks, Len(vec_banks) + 1 for end()
  bankcnt,       \* the value readWriteHelper returned
  it,            \* the bank loop's iterator
  count,         \* read: execute's count
  inputBufOff,   \* write: execute's inputBufOff
  bk,            \* the running readBank / writeBank call: aStartAddr, aSize, phy,
                 \* count, buf (write: offset of inputBuf in the allocation)
  ops,           \* the xclUnmgdPread / xclUnmgdPwrite calls made, in order
  subs,          \* the readBank / writeBank calls made, in order
  outFile,       \* read: the blocks appended to the output file
  failbit,       \* read: the output stream's failbit
  out            \* the lines printed that carry numbers

vars ==
  <<raw_mem, cmd, pc, m_baseAddress, m_sizeBytes, m_fill, inputBufSize, baseAddress,
    sizeBytes, vec_banks, startbank, bankcnt, it, count, inputBufOff, bk, ops,
    subs, outFile, failbit, out>>

\* ------------------------------------------------------------ device inputs

\* Base addresses and sizes (in KB) of the banks a device reports.
BaseSet == {0, 8192, 401408}

SizeKBSet == {0, 4, 384}

\* The entries of a raw topology: an unused one, a streaming one, and banks.
EntryChoices ==
  {MemData(FALSE, "MEM_DDR4", 0, 4), MemData(TRUE, "MEM_STREAMING", 8192, 4)}
    \cup {MemData(TRUE, "MEM_DDR4", b, s) : b \in BaseSet, s \in SizeKBSet}

\* The device's contract: the selected banks have distinct base addresses and
\* share no address.
Disjoint(d) ==
  \A i, j \in 1 .. Len(d) :
    (i < j /\ Selected(d[i]) /\ Selected(d[j])) =>
      /\ d[i].m_base_address # d[j].m_base_address
      /\ \/ d[i].m_base_address + d[i].m_size * KB <= d[j].m_base_address
         \/ d[j].m_base_address + d[j].m_size * KB <= d[i].m_base_address

RawData ==
  {d \in UNION {[1 .. n -> EntryChoices] : n \in 0 .. MaxRaw} : Disjoint(d)}

\* No topology buffer at all, or a header with its count and entries.
RawTopologies ==
  {[empty |-> TRUE, m_count |-> 0, m_mem_data |-> <<>>]}
    \cup {[empty |-> FALSE, m_count |-> Len(d), m_mem_data |-> d] : d \in RawData}

\* The banks of a raw topology as a set, with sizes in bytes.
BankSet(raw) ==
  {[base |-> raw.m_mem_data[i].m_base_address,
    bytes |-> raw.m_mem_data[i].m_size * KB] :
      i \in {k \in 1 .. Len(raw.m_mem_data) : Selected(raw.m_mem_data[k])}}

\* The banks that hold address a.
Holders(raw, a) == {b \in BankSet(raw) : b.base <= a /\ a < b.base + b.bytes}

RECURSIVE SumBytes(_)
SumBytes(S) ==
  IF S = {} THEN 0 ELSE LET b == CHOOSE x \in S : TRUE IN b.bytes + SumBytes(S \ {b})

\* The lowest base address of the topology.
LowestBase(raw) ==
  CHOOSE a \in {b.base : b \in BankSet(raw)} : \A b \in BankSet(raw) : a <= b.base

\* The address a request for start resolves to.
Resolved(raw, start) ==
  IF start = 0 /\ BankSet(raw) # {} THEN LowestBase(raw) ELSE start

\* Bytes from address a to the end of the bank that holds it.
Remaining(raw, a) ==
  LET b == CHOOSE x \in Holders(raw, a) : TRUE IN b.base + b.bytes - a

\* Bytes from address a to the end of the last bank, gaps not counted.
Capacity(raw, a) ==
  Remaining(raw, a) + SumBytes({b \in BankSet(raw) : b.base > a})

\* The start addresses tried: 0, 4096, and around the ends of every bank.
Starts(raw) ==
  ({0, 4096} \cup UNION {{b.base, b.base + 1, b.base + b.bytes - 1, b.base + b.bytes} :
                          b \in BankSet(raw)}) \cap Word

\* The sizes tried with a start address: 0, 0x1800, and around what its bank
\* and the banks after it hold.
Sizes(raw, start) ==
  LET a == Resolved(raw, start)
  IN ({0, 6144}
       \cup (IF Holders(raw, a) = {} THEN {}
             ELSE {Remaining(raw, a), Remaining(raw, a) + 1,
                   Capacity(raw, a), Capacity(raw, a) + 1})) \cap Word

\* The lengths of the input file of a write.
FileSizes == {4097}

\* -------------------------------------------------------------------- Init

NoCall == [aStartAddr |-> 0, aSize |-> 0, phy |-> 0, count |-> 0, buf |-> 0]

\* No command has run yet.
InitLocals ==
  /\ cmd = "none"
  /\ pc = "idle"
  /\ m_baseAddress = 0
  /\ m_sizeBytes = 0
  /\ m_fill = FALSE
  /\ inputBufSize = 0
  /\ baseAddress = 0
  /\ sizeBytes = 0
  /\ vec_banks = <<>>
  /\ startbank = 0
  /\ bankcnt = 0
  /\ it = 0
  /\ count = 0
  /\ inputBufOff = 0
  /\ bk = NoCall
  /\ ops = <<>>
  /\ subs = <<>>
  /\ outFile = <<>>
  /\ failbit = FALSE
  /\ out = <<>>

Init == raw_mem \in RawTopologies /\ InitLocals

\* ----------------------------------------------------------------- output

Msg(kind, a, b, c) == [msg |-> kind, a |-> a, b |-> b, c |-> c]

\* What getDDRBanks and readWriteHelper print: the topology error of
\* getDDRBanks (lines 83-84), then the helper's own error (116, 129, 139).
HelperOutput(raw, h) ==
  (IF getDDRBanks(raw, <<>>).ret = -EINVAL
   THEN <<Msg("TopologyNotAvailable", 0, 0, 0)>> ELSE <<>>)
    \o (IF h.err = "none" THEN <<>>
        ELSE <<Msg(h.err, h.aSize, h.aStartAddr, 0)>>)

\* The INFO line of execute after the helper (read 166-173, write 207-214).
StraddleInfo(h) ==
  IF h.ret > 1
  THEN <<Msg("Straddles", h.aSize, h.aStartAddr, h.ret)>>
  ELSE <<Msg("SingleBank", h.aSize, h.aStartAddr, 0)>>

\* --------------------------------------------------------------- execute

\* OO_MemRead::execute line 162: the helper's result that makes read return.
ReadAborts(ret) == ret = -EINVAL

\* OO_MemWrite::execute line 203: the helper's result that makes write return.
WriteAborts(ret) == ret = -1

\* The state execute leaves after the call of readWriteHelper (read 157-175,
\* write 198-216), common to both commands.
AfterHelper(h, aborts) ==
  /\ baseAddress' = h.aStartAddr
  /\ sizeBytes' = h.aSize
  /\ vec_banks' = h.vec_banks
  /\ startbank' = h.startbank
  /\ bankcnt' = h.ret
  /\ IF h.crashed
     THEN /\ pc' = "crashed"
          /\ out' = HelperOutput(raw_mem, h)
          /\ UNCHANGED <<it, count>>
     ELSE IF aborts
     THEN /\ pc' = "done"
          /\ out' = HelperOutput(raw_mem, h)
          /\ UNCHANGED <<it, count>>
     ELSE /\ pc' = "walk"
          /\ out' = HelperOutput(raw_mem, h) \o StraddleInfo(h)
          /\ it' = h.startbank
          /\ count' = h.aSize

\* OO_MemRead::execute up to the bank loop: the options, the output file
\* opened (and truncated), the helper.
ReadBegin(address, size, ub) ==
  /\ cmd' = "read"
  /\ m_baseAddress' = address
  /\ m_sizeBytes' = size
  /\ LET h == readWriteHelper(raw_mem, address, size, ub)
     IN AfterHelper(h, ReadAborts(h.ret))
  /\ UNCHANGED <<raw_mem, m_fill, inputBufSize, inputBufOff, bk, ops, subs, outFile,
                 failbit>>

\* Mutant of WriteSize: the size is clamped with a fill byte as well.
WriteSize_ClampFill(size, fill, input_buf_size) ==
  IF input_buf_size < size THEN input_buf_size ELSE size

\* The size write passes to the helper: the size option with a fill byte,
\* the smaller of it and the file's length with an input file (line 191).
WriteSize(size, fill, input_buf_size) ==
  IF fill THEN size
  ELSE IF input_buf_size < size THEN input_buf_size ELSE size

\* OO_MemWrite::execute up to the bank loop: the options, the input buffer
\* allocated and loaded (fill: sizeBytes bytes; file: the file's length),
\* the helper.
WriteBegin(address, size, fill, input_buf_size, ub) ==
  /\ cmd' = "write"
  /\ m_baseAddress' = address
  /\ m_sizeBytes' = size
  /\ m_fill' = fill
  /\ inputBufSize' = IF fill THEN size ELSE input_buf_size
  /\ inputBufOff' = 0
  /\ LET h == readWriteHelper(raw_mem, address,
                              WriteSize(size, fill, input_buf_size), ub)
     IN AfterHelper(h, WriteAborts(h.ret))
  /\ UNCHANGED <<raw_mem, bk, ops, subs, outFile, failbit>>

\* OO_MemWrite::execute when posix_memalign fails (lines 167-170, 181-184):
\* the error line, and return before the helper is called.
WriteNoMemory(address, size, fill) ==
  /\ pc = "idle"
  /\ cmd' = "write"
  /\ m_baseAddress' = address
  /\ m_sizeBytes' = size
  /\ m_fill' = fill
  /\ pc' = "done"
  /\ out' = <<Msg("AllocFailed", 0, 0, 0)>>
  /\ UNCHANGED <<raw_mem, inputBufSize, baseAddress, sizeBytes, vec_banks, startbank,
                 bankcnt, it, count, inputBufOff, bk, ops, subs, outFile, failbit>>

\* Mutant of AfterLoop: the summary line gives the bytes that remain.
AfterLoop_Remaining ==
  /\ pc' = "done"
  /\ out' = IF cmd = "read"
            THEN Append(out, Msg("ReadSaved", sizeBytes, 0, 0))
            ELSE out

\* What execute does once its bank loop is over (read 198-199: the summary
\* line; write 239: nothing).
AfterLoop ==
  /\ pc' = "done"
  /\ out' = IF cmd = "read"
            THEN Append(out, Msg("ReadSaved", Sub(count, sizeBytes), 0, 0))
            ELSE out

\* Mutant of BankStart: baseAddress is not moved to a later bank's base.
BankStart_Stays(bank, isStart, base) == base

\* The address the transfer starts at in a bank (read 178-180, write
\* 219-221): baseAddress in the start bank, the bank's base in a later one.
BankStart(bank, isStart, base) ==
  IF ~isStart THEN bank.m_base_address ELSE base

\* One pass of the head of execute's bank loop (read 176-187, write 217-228):
\* the loop ends, or breaks on sizeBytes = 0, or calls readBank / writeBank
\* for the part of the bank the transfer takes.
Walk ==
  /\ pc = "walk"
  /\ IF it < 1 \/ it > Len(vec_banks)
     THEN AfterLoop /\ UNCHANGED <<baseAddress, bk, subs>>
     ELSE LET isStart == (it = startbank)
              base == BankStart(vec_banks[it], isStart, baseAddress)
              available_bank_size ==
                AvailableBankSize(vec_banks[it], isStart, baseAddress)
              xfer == AccessSize(sizeBytes, available_bank_size)
          IN /\ baseAddress' = base
             /\ IF sizeBytes # 0
                THEN /\ pc' = "chunk"
                     /\ bk' = [aStartAddr |-> base, aSize |-> xfer, phy |-> base,
                               count |-> xfer, buf |-> inputBufOff]
                     /\ subs' = Append(subs, [bank |-> it, start |-> base,
                                              len |-> xfer])
                     /\ out' = IF cmd = "write"
                               THEN Append(out, Msg("WritingBank", xfer, base, 0))
                               ELSE out
                ELSE AfterLoop /\ UNCHANGED <<bk, subs>>
  /\ UNCHANGED <<raw_mem, cmd, m_baseAddress, m_sizeBytes, m_fill, inputBufSize, sizeBytes,
                 vec_banks, startbank, bankcnt, it, count, inputBufOff, ops,
                 outFile, failbit>>

\* ---------------------------------------------------- readBank / writeBank

\* The block loop's condition (read 80, write 86): phy < aStartAddr + aSize.
LoopRuns(b) == b.phy < Add(b.aStartAddr, b.aSize)

\* Mutant of Incr: all that is left of the bank goes in one block.
Incr_Whole(cnt) == cnt

\* incr: the size of the next block (read 81, write 87).
Incr(cnt) == IF cnt >= blockSize THEN blockSize ELSE cnt

\* The bytes execute reports as read when readBank fails (line 188).
ReadErrorBytes == Sub(sizeBytes, count)

\* Mutant of BankFailed: execute does not return, and runs the bank again.
BankFailed_Retry(lines) ==
  /\ pc' = "walk"
  /\ out' = out \o lines

\* What follows a failed readBank / writeBank in execute (read 188-189: the
\* error line, return; write 229: return).
BankFailed(lines) ==
  /\ pc' = "done"
  /\ out' = out \o lines
            \o (IF cmd = "read"
                THEN <<Msg("ReadError", ReadErrorBytes, sizeBytes, 0)>>
                ELSE <<>>)

\* readBank cannot allocate its block buffer (lines 72-74) and returns -1
\* before any device call.
BankNoMemory ==
  /\ pc = "walk"
  /\ cmd = "read"
  /\ it \in 1 .. Len(vec_banks)
  /\ sizeBytes # 0
  /\ LET isStart == (it = startbank)
         base == BankStart(vec_banks[it], isStart, baseAddress)
         xfer == AccessSize(sizeBytes,
                            AvailableBankSize(vec_banks[it], isStart, baseAddress))
     IN /\ baseAddress' = base
        /\ subs' = Append(subs, [bank |-> it, start |-> base, len |-> xfer])
  /\ BankFailed(<<>>)
  /\ UNCHANGED <<raw_mem, cmd, m_baseAddress, m_sizeBytes, m_fill, inputBufSize,
                 sizeBytes, vec_banks, startbank, bankcnt, it, count, inputBufOff,
                 bk, ops, outFile, failbit>>

\* The device call of the block fails (read 82-86, write 88-92): the error
\* line, and readBank / writeBank return -1.
ChunkFail ==
  /\ pc = "chunk"
  /\ LoopRuns(bk)
  /\ ops' = Append(ops, [op |-> cmd, phy |-> bk.phy, incr |-> Incr(bk.count),
                         buf |-> bk.buf, ok |-> FALSE])
  /\ BankFailed(<<Msg("ChunkError", Incr(bk.count), bk.phy, 0)>>)
  /\ UNCHANGED <<raw_mem, cmd, m_baseAddress, m_sizeBytes, m_fill, inputBufSize,
                 baseAddress, sizeBytes, vec_banks, startbank, bankcnt, it, count,
                 inputBufOff, bk, subs, outFile, failbit>>

\* Mutant of CountAfter: a block the file did not take is not counted.
CountAfter_FileOnly(cnt, incr, fails) == IF fails THEN cnt ELSE Sub(cnt, incr)

\* count -= incr (read 87, write 93), made before the file is written and
\* whatever becomes of that write.
CountAfter(cnt, incr, fails) == Sub(cnt, incr)

\* Mutant of NextPhy: a byte is skipped after every block.
NextPhy_Skip(phy, incr) == Add(phy, incr + 1)

\* phy += incr, the step of the block loop (read 80, write 86).
NextPhy(phy, incr) == Add(phy, incr)

\* Mutant of FileWrite: the block is kept back and not written out.
FileWrite_Buffered(file, block, fails) == file

\* aOutFile.write of a block (readBank line 89): the block is appended,
\* unless the stream fails.
FileWrite(file, block, fails) == IF fails THEN file ELSE Append(file, block)

\* The device call of the block succeeds (read 82-96, write 88-95). A read
\* appends the block to the output file; fileFails is whether that write
\* sets the stream's failbit (a stream with failbit set writes nothing).
ChunkOk(fileFails) ==
  /\ pc = "chunk"
  /\ LoopRuns(bk)
  /\ LET incr == Incr(bk.count)
         fails == failbit \/ fileFails
         left == CountAfter(bk.count, incr, cmd = "read" /\ incr # 0 /\ fails)
     IN /\ ops' = Append(ops, [op |-> cmd, phy |-> bk.phy, incr |-> incr,
                               buf |-> bk.buf, ok |-> TRUE])
        /\ bk' = [bk EXCEPT !.count = left, !.phy = NextPhy(bk.phy, incr),
                            !.buf = IF cmd = "write" THEN bk.buf + incr ELSE bk.buf]
        /\ IF cmd = "read"
           THEN /\ failbit' = IF incr # 0 THEN fails ELSE failbit
                /\ outFile' = IF incr # 0
                              THEN FileWrite(outFile, [phy |-> bk.phy, incr |-> incr],
                                             fails)
                              ELSE outFile
                /\ out' = out
                     \o (IF incr # 0 /\ fails
                         THEN <<Msg("FileWriteError", Sub(bk.aSize, left), 0, 0)>>
                         ELSE <<>>)
                     \o <<Msg("ReadInfo", incr, bk.phy, Sub(bk.aSize, left))>>
           ELSE UNCHANGED <<failbit, outFile, out>>
  /\ UNCHANGED <<raw_mem, cmd, pc, m_baseAddress, m_sizeBytes, m_fill, inputBufSize,
                 baseAddress, sizeBytes, vec_banks, startbank, bankcnt, it, count,
                 inputBufOff, subs>>

\* The block of a write lies outside the allocated input buffer and the
\* process dies reading it (undefined behaviour; ChunkOk and ChunkFail are
\* the other outcomes).
ChunkCrash ==
  /\ pc = "chunk"
  /\ cmd = "write"
  /\ LoopRuns(bk)
  /\ bk.buf + Incr(bk.count) > inputBufSize
  /\ pc' = "crashed"
  /\ UNCHANGED <<raw_mem, cmd, m_baseAddress, m_sizeBytes, m_fill, inputBufSize,
                 baseAddress, sizeBytes, vec_banks, startbank, bankcnt, it, count,
                 inputBufOff, bk, ops, subs, outFile, failbit, out>>

\* Mutant of NextBank: the iterator stays on the bank.
NextBank_Stay(i) == i

\* ++it of execute's bank loop (read 176, write 217).
NextBank(i) == i + 1

\* The block loop is over (read 97-102, write 97-102): -1 with bytes left,
\* else 0, and execute moves to the next bank (read 191, write 231-232).
BankReturn ==
  /\ pc = "chunk"
  /\ ~LoopRuns(bk)
  /\ IF bk.count # 0
     THEN /\ BankFailed(<<Msg("BankShort", Sub(bk.aSize, bk.count), bk.aSize, 0)>>)
          /\ UNCHANGED <<sizeBytes, inputBufOff, it>>
     ELSE /\ pc' = "walk"
          /\ sizeBytes' = Sub(sizeBytes, bk.aSize)
          /\ inputBufOff' = IF cmd = "write" THEN inputBufOff + bk.aSize
                            ELSE inputBufOff
          /\ it' = NextBank(it)
          /\ out' = out
  /\ UNCHANGED <<raw_mem, cmd, m_baseAddress, m_sizeBytes, m_fill, inputBufSize,
                 baseAddress, vec_banks, startbank, bankcnt, count, bk, ops, subs,
                 outFile, failbit>>

\* ------------------------------------------------------------ specification

\* The command line: the address and size options, and for a write its source.
Read ==
  /\ pc = "idle"
  /\ \E a \in Starts(raw_mem) : \E s \in Sizes(raw_mem, a) : \E ub \in FrontOfEmpty :
       ReadBegin(a, s, ub)

Write ==
  /\ pc = "idle"
  /\ \E a \in Starts(raw_mem) : \E s \in Sizes(raw_mem, a) : \E ub \in FrontOfEmpty :
       \E fill \in BOOLEAN : \E n \in FileSizes :
         WriteBegin(a, s, fill, n, ub)

\* A write whose input buffer cannot be allocated.
WriteFailsEarly ==
  /\ pc = "idle"
  /\ \E a \in Starts(raw_mem) : \E s \in Sizes(raw_mem, a) : \E fill \in BOOLEAN :
       WriteNoMemory(a, s, fill)

Next ==
  \/ Read
  \/ Write
  \/ WriteFailsEarly
  \/ Walk
  \/ BankNoMemory
  \/ ChunkFail
  \/ \E fileFails \in BOOLEAN : ChunkOk(fileFails)
  \/ ChunkCrash
  \/ BankReturn

Spec == Init /\ [][Next]_vars

\* The steps of a command that has started. Each one is straight-line code
\* between two calls of the device or of the file, so the command goes on
\* taking them for as long as those calls return.
Step ==
  \/ Walk
  \/ BankNoMemory
  \/ ChunkFail
  \/ \E fileFails \in BOOLEAN : ChunkOk(fileFails)
  \/ ChunkCrash
  \/ BankReturn

SpecLive == Init /\ [][Next]_vars /\ WF_vars(Step)

\* ------------------------------------- banks at the top of the address space

\* The base address of a bank of 4 KB that ends at 2^AddrBits.
TopBase == Modulus - 4 * KB

\* The entries of a topology with a bank at the top: that bank, banks at
\* 0x0 and 0x2000, a bank of size 0.
TopEntryChoices ==
  {MemData(TRUE, "MEM_DDR4", TopBase, 4), MemData(TRUE, "MEM_DDR4", 0, 4),
   MemData(TRUE, "MEM_DDR4", 8192, 384), MemData(TRUE, "MEM_DDR4", 8192, 0)}

TopTopologies ==
  {[empty |-> FALSE, m_count |-> Len(d), m_mem_data |-> d] :
     d \in {e \in UNION {[1 .. n -> TopEntryChoices] : n \in 1 .. MaxRaw} :
              /\ Disjoint(e)
              /\ \E i \in DOMAIN e : e[i].m_base_address = TopBase}}

InitTop == raw_mem \in TopTopologies /\ InitLocals

SpecTop == InitTop /\ [][Next]_vars

\* -------------------------------------------- write-mem, then read-mem back

\* The command has printed an error of readBank / writeBank or of an
\* allocation.
Failed ==
  \E i \in DOMAIN out :
    out[i].msg \in {"ReadError", "ChunkError", "BankShort", "AllocFailed"}

\* write-mem with a fill byte and a size of at least 1.
WriteFill ==
  /\ pc = "idle"
  /\ \E a \in Starts(raw_mem) : \E s \in Sizes(raw_mem, a) \ {0} :
       \E ub \in FrontOfEmpty : \E n \in FileSizes :
         WriteBegin(a, s, TRUE, n, ub)

\* read-mem with the address and size of the write-mem that has just ended
\* without an error, on the same device.
ReadBack ==
  /\ pc = "done"
  /\ cmd = "write"
  /\ ~Failed
  /\ \E ub \in FrontOfEmpty : ReadBegin(m_baseAddress, m_sizeBytes, ub)

NextRoundTrip ==
  \/ WriteFill
  \/ ReadBack
  \/ Walk
  \/ BankNoMemory
  \/ ChunkFail
  \/ \E fileFails \in BOOLEAN : ChunkOk(fileFails)
  \/ BankReturn

SpecRoundTrip == Init /\ [][NextRoundTrip]_vars

\* ------------------------------------------------------------------ claims

\* A command has run its call of readWriteHelper (which sets startbank
\* unless the process dies in it).
Called == cmd # "none" /\ (startbank # 0 \/ pc = "crashed")

\* The process died inside readWriteHelper.
HelperCrashed == pc = "crashed" /\ subs = <<>>

\* readWriteHelper returned -EINVAL / returned a bank count.
HelperFailed == Called /\ ~HelperCrashed /\ bankcnt = -EINVAL

HelperOk == Called /\ ~HelperCrashed /\ bankcnt # -EINVAL

\* The start address and the size the command passed to readWriteHelper.
PassedStart == m_baseAddress

PassedSize ==
  IF cmd = "write" THEN WriteSize(m_sizeBytes, m_fill, inputBufSize) ELSE m_sizeBytes

\* The start address the request resolves to, and whether a bank holds it.
ResolvedStart == Resolved(raw_mem, PassedStart)

Located == Holders(raw_mem, ResolvedStart) # {}

\* The size the request resolves to, for a located start.
ResolvedSize ==
  IF PassedSize = 0 THEN Capacity(raw_mem, ResolvedStart) ELSE PassedSize

\* The state right after a successful call of readWriteHelper.
PostHelper == HelperOk /\ pc = "walk" /\ it = startbank /\ subs = <<>>

\* C1: whenever readWriteHelper fails with -EINVAL, the command (read or
\* write) issues no chunk operation to the device.
C1_NoChunkAfterInvalidRange == HelperFailed => ops = <<>>

\* C2: with an empty or zero-count raw topology readWriteHelper fails with
\* -EINVAL without reading an element of the (empty) bank list: the process
\* does not die, the start address is not substituted, nothing is driven.
C2_EmptyTopologyFailsFirst ==
  (Called /\ (raw_mem.empty \/ raw_mem.m_count = 0)) =>
    /\ pc # "crashed"
    /\ bankcnt = -EINVAL
    /\ baseAddress = m_baseAddress
    /\ subs = <<>>

\* C3: for a start address inside a bank, readWriteHelper fails exactly when
\* the size is greater than the capacity from the start to the end of the
\* last bank; a size equal to that capacity is accepted.
C3_SizeCheck ==
  (Called /\ ~HelperCrashed /\ Located) =>
    (bankcnt = -EINVAL <=> PassedSize > Capacity(raw_mem, ResolvedStart))

\* C3's case: a start off its bank's base, more banks after it, and a size
\* equal to the capacity, accepted.
C3_Witness ==
  /\ HelperOk
  /\ Located
  /\ Cardinality(BankSet(raw_mem)) > 1
  /\ \A b \in BankSet(raw_mem) : b.base # ResolvedStart
  /\ \E b \in BankSet(raw_mem) : b.base > ResolvedStart /\ b.bytes > 0
  /\ PassedSize = Capacity(raw_mem, ResolvedStart)

\* The error line readWriteHelper prints for a start no bank holds.
StartRejected ==
  /\ HelperFailed
  /\ startbank = Len(vec_banks) + 1
  /\ \E i \in DOMAIN out : out[i].msg = "StartNotValid" /\ out[i].b = PassedStart

\* C4: a non-zero start address in a gap, below the lowest bank or at or
\* beyond the end of the last bank is rejected; an address inside a bank
\* (its first and last byte included) is located in that bank.
C4_StartCheck ==
  (Called /\ ~HelperCrashed) =>
    /\ (PassedStart # 0 /\ Holders(raw_mem, PassedStart) = {}) => StartRejected
    /\ Holders(raw_mem, PassedStart) # {} =>
         /\ startbank \in 1 .. Len(vec_banks)
         /\ [base |-> vec_banks[startbank].m_base_address,
             bytes |-> vec_banks[startbank].m_size] \in Holders(raw_mem, PassedStart)

\* C4's case: the start is the last byte of a bank that is not the lowest,
\* and it is located there.
C4_Witness ==
  /\ Called
  /\ pc = "walk"
  /\ subs = <<>>
  /\ Len(vec_banks) = 2
  /\ startbank = 2
  /\ PassedStart = vec_banks[2].m_base_address + vec_banks[2].m_size - 1
  /\ vec_banks[2].m_size > 1

\* C5: on success a start of 0 has become the lowest bank's base address and
\* a size of 0 the capacity from the resolved start to the end of the last
\* bank; a non-zero start or size is left as passed.
C5_Defaults ==
  PostHelper =>
    /\ baseAddress = (IF PassedStart = 0 THEN LowestBase(raw_mem) ELSE PassedStart)
    /\ sizeBytes = (IF PassedSize = 0 THEN Capacity(raw_mem, baseAddress)
                    ELSE PassedSize)

\* C5's case: banks {0x0, 0x1000} and {0x2000, 0x1000}, start 0, size 0:
\* the size resolves to 0x2000 and two banks are counted.
C5_Witness ==
  /\ PostHelper
  /\ BankSet(raw_mem) = {[base |-> 0, bytes |-> 4096], [base |-> 8192, bytes |-> 4096]}
  /\ PassedStart = 0
  /\ PassedSize = 0
  /\ sizeBytes = 8192
  /\ bankcnt = 2

\* The sum of the lengths of the first n calls of readBank / writeBank.
RECURSIVE SumLen(_, _)
SumLen(s, n) == IF n = 0 THEN 0 ELSE s[n].len + SumLen(s, n - 1)

\* C6: for a valid plan the command calls readBank / writeBank bank by bank
\* in ascending order: first at the resolved start for min(remaining, what is
\* left of the start bank), then at each later bank's base for min(remaining,
\* the bank's size); when the command ends without an error the lengths sum
\* to the resolved size.
C6_Walk ==
  HelperOk =>
    /\ \A i \in DOMAIN subs :
         LET b == vec_banks[subs[i].bank]
             remaining == ResolvedSize - SumLen(subs, i - 1)
         IN /\ subs[i].bank = startbank + i - 1
            /\ subs[i].start = (IF i = 1 THEN ResolvedStart ELSE b.m_base_address)
            /\ subs[i].len =
                 Min(remaining,
                     IF i = 1 THEN b.m_size - (ResolvedStart - b.m_base_address)
                     ELSE b.m_size)
            /\ i > 1 => vec_banks[subs[i - 1].bank].m_base_address < b.m_base_address
    /\ (pc = "done" /\ ~Failed) => SumLen(subs, Len(subs)) = ResolvedSize

\* C6's case: banks {0x0, 0x1000} and {0x2000, 0x1000}, start 0, size 0x1800:
\* 0x1000 bytes at 0x0 in the first bank, then 0x800 at 0x2000 in the second.
C6_Witness ==
  /\ HelperOk
  /\ pc = "done"
  /\ ~Failed
  /\ BankSet(raw_mem) = {[base |-> 0, bytes |-> 4096], [base |-> 8192, bytes |-> 4096]}
  /\ PassedStart = 0
  /\ PassedSize = 6144
  /\ subs = <<[bank |-> 1, start |-> 0, len |-> 4096],
              [bank |-> 2, start |-> 8192, len |-> 2048]>>

\* The banks above address a, and the k lowest of them.
Following(a) == {b \in BankSet(raw_mem) : b.base > a}

FirstK(F, k) == {b \in F : Cardinality({c \in F : c.base < b.base}) < k}

\* The resolved request takes all that is left of its start bank and all of
\* the k banks that follow it.
ExhaustsK(k) ==
  /\ HelperOk
  /\ Located
  /\ LET F == Following(ResolvedStart)
     IN /\ k <= Cardinality(F)
        /\ ResolvedSize = Remaining(raw_mem, ResolvedStart) + SumBytes(FirstK(F, k))

\* The last of the k banks is not empty (or there is none, k = 0).
LastTaken(k) ==
  LET F == Following(ResolvedStart)
  IN k = 0 \/ \E b \in FirstK(F, k) \ FirstK(F, k - 1) : b.bytes > 0

\* C7 as stated: a request that takes all that is left of bank i and all of
\* the k banks after it gets bank_count = k + 2.
C7_Original == \A k \in 0 .. MaxRaw : ExhaustsK(k) => bankcnt = k + 2

\* C7 as amended: such a request gets bank_count = k + 1, the number of
\* banks it touches (the last of the k banks being non-empty).
C7_BankCount ==
  (HelperOk /\ Located) =>
    LET a == ResolvedStart
        F == Following(a)
        size == ResolvedSize
        left == Remaining(raw_mem, a)
    IN \A k \in 0 .. Cardinality(F) :
         LET K == FirstK(F, k)
         IN (/\ size = left + SumBytes(K)
             /\ (k = 0 \/ \E b \in K \ FirstK(F, k - 1) : b.bytes > 0))
              => bankcnt = k + 1

\* C7's case: the start is off its bank's base, one bank follows and is
\* taken whole.
C7_Witness ==
  /\ ExhaustsK(1)
  /\ LastTaken(1)
  /\ \A b \in BankSet(raw_mem) : b.base # ResolvedStart
  /\ bankcnt = 2

\* C8 as stated: a valid request whose size does not exceed what is left of
\* its start bank gets bank_count = 1.
C8_Original ==
  (HelperOk /\ Located /\ PassedSize <= Remaining(raw_mem, ResolvedStart)) =>
    bankcnt = 1

\* C8 as amended: a valid request whose resolved size (the size passed, or
\* the whole capacity for a size of 0) does not exceed what is left of its
\* start bank gets bank_count = 1.
C8_SingleBank ==
  (HelperOk /\ Located /\ ResolvedSize <= Remaining(raw_mem, ResolvedStart)) =>
    bankcnt = 1

\* C8's case: the size is all that is left of the start bank, from a start
\* off the bank's base, and a non-empty bank follows.
C8_Witness ==
  /\ HelperOk
  /\ Located
  /\ PassedSize = Remaining(raw_mem, ResolvedStart)
  /\ \A b \in BankSet(raw_mem) : b.base # ResolvedStart
  /\ \E b \in Following(ResolvedStart) : b.bytes > 0
  /\ bankcnt = 1

\* A device call has failed.
SomeFailed == \E j \in DOMAIN ops : ~ops[j].ok

\* C9: once a device call has failed, the command makes no further device
\* call and no further readBank / writeBank call, and what the earlier
\* blocks wrote to the device and to the output file stays as it is.
C9_FailFast ==
  [][SomeFailed => (ops' = ops /\ subs' = subs /\ outFile' = outFile)]_vars

\* C9's case: a block after the first fails while more blocks of the bank
\* and a later bank are still to be transferred, and the command is over.
C9_Witness ==
  /\ pc = "done"
  /\ Len(ops) >= 2
  /\ ~ops[Len(ops)].ok
  /\ bk.count > blockSize
  /\ sizeBytes > bk.aSize
  /\ it < Len(vec_banks)
  /\ vec_banks[it + 1].m_size > 0

\* The bytes of the device calls that succeeded.
RECURSIVE SumOk(_, _)
SumOk(o, n) ==
  IF n = 0 THEN 0 ELSE (IF o[n].ok THEN o[n].incr ELSE 0) + SumOk(o, n - 1)

\* C10: when a device call fails, the command prints the bytes transferred
\* before the failure together with the size requested (as resolved).
C10_ReportsProgress ==
  (HelperOk /\ pc = "done" /\ SomeFailed) =>
    \E i \in DOMAIN out :
      /\ out[i].msg \in {"ReadError", "BankShort"}
      /\ out[i].a = SumOk(ops, Len(ops))
      /\ out[i].b = ResolvedSize

\* C10 for the read command alone, whose error line carries both numbers.
C10_ReadReport == cmd = "read" => C10_ReportsProgress

\* The device calls of the i-th readBank / writeBank call: those at the
\* addresses of its part of the bank (the banks share no address).
OpsOf(i) ==
  LET InSub(o) == o.phy >= subs[i].start /\ o.phy < subs[i].start + subs[i].len
  IN SelectSeq(ops, InSub)

\* The i-th readBank / writeBank call has returned 0.
SubComplete(i) == i < Len(subs) \/ pc = "walk" \/ (pc = "done" /\ ~Failed)

CeilDiv(L, B) == (L + B - 1) \div B

RECURSIVE SumIncr(_, _)
SumIncr(o, n) == IF n = 0 THEN 0 ELSE o[n].incr + SumIncr(o, n - 1)

\* C11: the j-th device call of a readBank / writeBank call of length L is
\* at offset (j-1)*blockSize for min(blockSize, bytes left) bytes, and a call
\* that returns 0 has made exactly ceil(L / blockSize) device calls whose
\* sizes sum to L.
C11_Chunks ==
  \A i \in DOMAIN subs :
    LET o == OpsOf(i)
        L == subs[i].len
    IN /\ \A j \in DOMAIN o :
            /\ o[j].phy = subs[i].start + (j - 1) * blockSize
            /\ o[j].incr = Min(blockSize, L - (j - 1) * blockSize)
       /\ SubComplete(i) =>
            /\ Len(o) = CeilDiv(L, blockSize)
            /\ SumIncr(o, Len(o)) = L

\* C11's case: a transfer of more than two blocks and not a whole number of
\* blocks in one bank, done in three device calls, the last one short.
C11_Witness ==
  /\ pc = "done"
  /\ ~Failed
  /\ \E i \in DOMAIN subs :
       /\ subs[i].len > 2 * blockSize
       /\ subs[i].len % blockSize # 0
       /\ Len(OpsOf(i)) = 3
       /\ OpsOf(i)[3].incr = subs[i].len - 2 * blockSize

\* The device stores the bytes of a write call that succeeds and lies in one
\* of its banks.
Stores(o) ==
  /\ o.op = "write"
  /\ o.ok
  /\ \E b \in BankSet(raw_mem) : b.base <= o.phy /\ o.phy + o.incr <= b.base + b.bytes

\* The device holds the fill byte at address a: the last write call that
\* stored a byte there took it from inside the filled input buffer.
FillAt(a) ==
  LET W == {j \in DOMAIN ops : Stores(ops[j]) /\ ops[j].phy <= a
                                 /\ a < ops[j].phy + ops[j].incr}
  IN /\ W # {}
     /\ LET last == CHOOSE j \in W : \A k \in W : k <= j
        IN ops[last].buf + ops[last].incr <= inputBufSize

\* Every byte of the block [p, p + n) is the fill byte: the block's first
\* address and every address in it where a write call starts or ends are.
FillBlock(p, n) ==
  \A a \in {p} \cup UNION {{ops[j].phy, ops[j].phy + ops[j].incr} : j \in DOMAIN ops} :
    (p <= a /\ a < p + n) => FillAt(a)

\* The bytes the read has put in the output file.
RECURSIVE SumFile(_, _)
SumFile(f, n) == IF n = 0 THEN 0 ELSE f[n].incr + SumFile(f, n - 1)

\* C12: after a write-mem of N >= 1 fill bytes at a valid address A, a
\* read-mem of N bytes from A that ends without an error has put N bytes in
\* the output file, each of them the fill byte, the device having stored
\* what was written.
C12_RoundTrip ==
  (cmd = "read" /\ pc = "done" /\ bankcnt # -EINVAL /\ ~Failed /\ ~failbit) =>
    /\ SumFile(outFile, Len(outFile)) = m_sizeBytes
    /\ \A i \in DOMAIN outFile : FillBlock(outFile[i].phy, outFile[i].incr)

\* C12's case: N is one byte more than what is left of the start bank, the
\* next bank lies beyond a gap, and the last byte read back is that bank's
\* first.
C12_Witness ==
  /\ cmd = "read"
  /\ pc = "done"
  /\ ~Failed
  /\ ~failbit
  /\ Located
  /\ m_sizeBytes = Remaining(raw_mem, ResolvedStart) + 1
  /\ Len(outFile) >= 2
  /\ outFile[Len(outFile)].incr = 1
  /\ outFile[Len(outFile)].phy > ResolvedStart + Remaining(raw_mem, ResolvedStart)
  /\ FillAt(outFile[Len(outFile)].phy)

\* The device call takes its bytes from inside the allocated input buffer.
FromBuffer(o) == o.buf + o.incr <= inputBufSize

\* C13: a write from an input file sends no more bytes than the file holds,
\* and takes every block from inside the loaded file content, whatever the
\* size option.
C13_FileBounds ==
  (cmd = "write" /\ ~m_fill) =>
    /\ SumIncr(ops, Len(ops)) <= inputBufSize
    /\ \A j \in DOMAIN ops : FromBuffer(ops[j])

\* C14: a write with a fill byte takes every block from inside the
\* allocated, filled buffer, a size option of 0 included.
C14_FillBounds ==
  (cmd = "write" /\ m_fill) => \A j \in DOMAIN ops : FromBuffer(ops[j])

\* C15: whatever the order of the raw topology, the bank list getDDRBanks
\* produces is in ascending order of base address.
C15_Sorted ==
  Called =>
    \A i, j \in DOMAIN vec_banks :
      i < j => vec_banks[i].m_base_address <= vec_banks[j].m_base_address

\* C15's case: the raw topology lists a bank above another one first.
C15_Witness ==
  /\ Called
  /\ Len(vec_banks) = 2
  /\ Len(raw_mem.m_mem_data) = 2
  /\ raw_mem.m_mem_data[1].m_base_address > raw_mem.m_mem_data[2].m_base_address
  /\ vec_banks[1].m_base_address = raw_mem.m_mem_data[2].m_base_address
  /\ vec_banks[2].m_base_address = raw_mem.m_mem_data[1].m_base_address

\* The positions of the bank list that describe entry i (1-based) of the
\* raw topology.
DescriptorsOf(i) ==
  {k \in DOMAIN vec_banks :
     /\ vec_banks[k].m_index = i - 1
     /\ vec_banks[k].m_base_address = raw_mem.m_mem_data[i].m_base_address
     /\ vec_banks[k].m_size = raw_mem.m_mem_data[i].m_size * KB}

C17_NoBankFails ==
  (Called /\ ~raw_mem.empty /\ raw_mem.m_count # 0 /\ BankSet(raw_mem) = {}) =>
    /\ pc # "crashed"
    /\ bankcnt = -EINVAL
    /\ baseAddress = m_baseAddress
    /\ ops = <<>>

\* C18: when readWriteHelper succeeds, the start bank is a bank of the list,
\* the first in ascending order that holds the start address left in the
\* in/out argument; that address is the resolved start, the in/out size is
\* the resolved size, and it is at most the capacity from the start.
C18_Return ==
  PostHelper =>
    /\ startbank \in 1 .. Len(vec_banks)
    /\ vec_banks[startbank].m_base_address <= baseAddress
    /\ baseAddress < vec_banks[startbank].m_base_address + vec_banks[startbank].m_size
    /\ \A j \in 1 .. (startbank - 1) :
         ~(/\ vec_banks[j].m_base_address <= baseAddress
           /\ baseAddress < vec_banks[j].m_base_address + vec_banks[j].m_size)
    /\ baseAddress = ResolvedStart
    /\ sizeBytes = ResolvedSize
    /\ sizeBytes <= Capacity(raw_mem, baseAddress)

\* C18's case: a start one byte above the base of the second bank and a
\* size of 0, resolved to what is left of that bank.
C18_Witness ==
  /\ PostHelper
  /\ Len(vec_banks) = 2
  /\ startbank = 2
  /\ PassedStart = vec_banks[2].m_base_address + 1
  /\ PassedSize = 0
  /\ baseAddress = PassedStart
  /\ sizeBytes = vec_banks[2].m_size - 1
  /\ sizeBytes > 0

\* The device call o touches only addresses of bank b.
Within(o, b) == b.base <= o.phy /\ o.phy + o.incr <= b.base + b.bytes

\* C19: for a valid plan every device call of the command, read or write,
\* touches only addresses of one bank of the topology: none touches an
\* address of a gap or goes beyond the end of its bank.
C19_InOneBank ==
  HelperOk => \A j \in DOMAIN ops : \E b \in BankSet(raw_mem) : Within(ops[j], b)

\* C19's case: two banks with a gap between them, the first ended by a
\* device call that reaches its last byte and the next call made at the base
\* of the second.
C19_Witness ==
  /\ HelperOk
  /\ pc = "done"
  /\ \E j \in DOMAIN ops : \E b, c \in BankSet(raw_mem) :
       /\ j < Len(ops)
       /\ Within(ops[j], b)
       /\ ops[j].phy + ops[j].incr = b.base + b.bytes
       /\ c.base > b.base + b.bytes
       /\ ops[j + 1].phy = c.base
       /\ ops[j + 1].incr > 0
       /\ Within(ops[j + 1], c)

\* The blocks the device has returned to a read, in the order of the calls.
RECURSIVE BlocksRead(_, _)
BlocksRead(o, n) ==
  IF n = 0 THEN <<>>
  ELSE IF o[n].op = "read" /\ o[n].ok
  THEN Append(BlocksRead(o, n - 1), [phy |-> o[n].phy, incr |-> o[n].incr])
  ELSE BlocksRead(o, n - 1)

\* C20: in a read whose output file takes every write, at every point
\* between two device calls the file holds all the blocks the device has
\* returned so far, in the order of the calls, and no block is larger than
\* blockSize (0x20000), the size of readBank's buffer.
C20_Streams ==
  (cmd = "read" /\ ~failbit) =>
    /\ outFile = BlocksRead(ops, Len(ops))
    /\ \A j \in DOMAIN ops : ops[j].incr <= blockSize

\* C20's case: two blocks are in the file and readBank is about to ask the
\* device for a third.
C20_Witness ==
  /\ cmd = "read"
  /\ ~failbit
  /\ pc = "chunk"
  /\ LoopRuns(bk)
  /\ Len(outFile) = 2
  /\ outFile[1].incr = blockSize
  /\ outFile[2].phy = outFile[1].phy + blockSize

\* C21: for a valid plan carried out without a failure, the command makes as
\* many readBank / writeBank calls as the bank count readWriteHelper
\* returned, on the banks the helper's walk counted: the start bank and those
\* after it, in ascending order.
C21_WalkMatchesCount ==
  (HelperOk /\ pc = "done" /\ ~Failed) =>
    /\ Len(subs) = bankcnt
    /\ \A i \in DOMAIN subs : subs[i].bank = startbank + i - 1

\* C21's case: the transfer ends in its start bank and a later, non-empty
\* bank is neither counted nor visited.
C21_Witness ==
  /\ HelperOk
  /\ pc = "done"
  /\ ~Failed
  /\ Len(vec_banks) = 2
  /\ vec_banks[2].m_size > 0
  /\ startbank = 1
  /\ bankcnt = 1
  /\ Len(subs) = 1
  /\ subs[1].bank = 1
  /\ subs[1].len = vec_banks[1].m_size

\* The bank holds address a as the specification has it:
\* base_address <= a <= base_address + size - 1.
HoldsInclusive(b, a) ==
  b.m_base_address <= a /\ a <= b.m_base_address + b.m_size - 1

\* C22: readWriteHelper leaves in startbank the first bank in ascending
\* order with base_address <= start <= base_address + size - 1, and end()
\* when there is none, also with a bank that ends at 2^AddrBits and with a
\* bank of size 0.
C22_StartBank ==
  (Called /\ ~HelperCrashed /\ subs = <<>>) =>
    LET S == {k \in DOMAIN vec_banks : HoldsInclusive(vec_banks[k], baseAddress)}
    IN IF S = {} THEN startbank = Len(vec_banks) + 1
       ELSE startbank = CHOOSE k \in S : \A j \in S : k <= j

\* A sequence of address ranges with the empty ones dropped and each range
\* that starts where the one before it ends joined to it: two sequences
\* give the same addresses in the same order exactly when these agree.
RECURSIVE Coalesce(_)
Coalesce(r) ==
  IF r = <<>> THEN <<>>
  ELSE LET c == Coalesce(SubSeq(r, 1, Len(r) - 1))
           x == r[Len(r)]
       IN IF x.incr = 0 THEN c
          ELSE IF c # <<>> /\ c[Len(c)].phy + c[Len(c)].incr = x.phy
          THEN [c EXCEPT ![Len(c)].incr = @ + x.incr]
          ELSE Append(c, x)

\* The address ranges of the readBank / writeBank calls, in call order.
WalkRanges == [i \in DOMAIN subs |-> [phy |-> subs[i].start, incr |-> subs[i].len]]

\* C23: a read that ends with no device call and no file write failed has
\* put in the output file exactly the resolved size in bytes, from the
\* address ranges of the walk one after the other in ascending bank order,
\* and its last line reports the resolved size.
C23_ReadResult ==
  (cmd = "read" /\ HelperOk /\ pc = "done" /\ ~Failed /\ ~failbit) =>
    /\ SumFile(outFile, Len(outFile)) = ResolvedSize
    /\ Coalesce(outFile) = Coalesce(WalkRanges)
    /\ \A i, j \in DOMAIN subs :
         i < j => vec_banks[subs[i].bank].m_base_address
                    < vec_banks[subs[j].bank].m_base_address
    /\ out[Len(out)] = Msg("ReadSaved", ResolvedSize, 0, 0)

\* C23's case: a size of 0 on two banks with a gap between them, the first
\* of more than one block: the file gets both banks whole.
C23_Witness ==
  /\ cmd = "read"
  /\ HelperOk
  /\ pc = "done"
  /\ ~Failed
  /\ ~failbit
  /\ PassedSize = 0
  /\ Len(subs) = 2
  /\ subs[1].len > blockSize
  /\ subs[2].len > 0
  /\ subs[2].start > subs[1].start + subs[1].len
  /\ Len(Coalesce(outFile)) = 2
  /\ out[Len(out)].a = subs[1].len + subs[2].len

\* readWriteHelper has printed one of its errors.
HelperError ==
  \E i \in DOMAIN out : out[i].msg \in {"NoTopology", "StartNotValid", "CannotAccess"}

\* C24: readWriteHelper returns either -EINVAL, with an error printed, or a
\* bank count of at least 1 with no error and a resolved size of at least 1;
\* it returns neither 0 nor -1.
C24_ReturnValues ==
  /\ (Called /\ ~HelperCrashed) =>
       /\ bankcnt # 0
       /\ bankcnt # -1
       /\ HelperError => bankcnt = -22
       /\ ~HelperError => bankcnt >= 1
  /\ PostHelper => sizeBytes >= 1

\* C24's case: the start is the last byte of the second bank, below a bank
\* of size 0, and the size is 0: it resolves to 1 byte and one bank is
\* counted.
C24_Witness ==
  /\ PostHelper
  /\ PassedStart # 0
  /\ PassedSize = 0
  /\ Len(vec_banks) = 2
  /\ vec_banks[1].m_size = 0
  /\ startbank = 2
  /\ bankcnt = 1
  /\ sizeBytes = 1

\* Two device calls are made in the same bank.
SameBank(o, q) ==
  \E b \in BankSet(raw_mem) :
    /\ b.base <= o.phy /\ o.phy < b.base + b.bytes
    /\ b.base <= q.phy /\ q.phy < b.base + b.bytes

\* C25: the device calls of a command are made at strictly ascending
\* addresses, each at or above the end of the one before it, so that no
\* address is touched twice, and a call that follows another in the same
\* bank starts exactly where that one ends.
C25_Ascending ==
  \A j \in DOMAIN ops :
    /\ ops[j].incr >= 1
    /\ j < Len(ops) =>
         /\ ops[j].phy + ops[j].incr <= ops[j + 1].phy
         /\ SameBank(ops[j], ops[j + 1]) =>
              ops[j + 1].phy = ops[j].phy + ops[j].incr

\* C25's case: three blocks one after the other in a bank, then a block in
\* the next bank, which lies beyond a gap.
C25_Witness ==
  /\ Len(ops) >= 4
  /\ \E j \in DOMAIN ops :
       /\ j + 3 <= Len(ops)
       /\ SameBank(ops[j], ops[j + 1])
       /\ SameBank(ops[j + 1], ops[j + 2])
       /\ ~SameBank(ops[j + 2], ops[j + 3])
       /\ ops[j + 3].phy > ops[j + 2].phy + ops[j + 2].incr

\* At the head of the block loop count is aStartAddr + aSize - phy.
LoopInvariant ==
  pc = "chunk" => bk.count = Sub(Add(bk.aStartAddr, bk.aSize), bk.phy)

\* Every device call is for 1 to blockSize bytes.
ChunkSizes == \A j \in DOMAIN ops : 1 <= ops[j].incr /\ ops[j].incr <= blockSize

\* No bank gets two readBank / writeBank calls.
VisitOnce == \A i, j \in DOMAIN subs : i < j => subs[i].bank # subs[j].bank

\* The command has ended (returned, or died).
Ended == pc \in {"done", "crashed"}

\* C26: the device and file calls returning, every command that starts
\* ends; at every head of the block loop count = aStartAddr + aSize - phy,
\* every device call is for 1 to blockSize bytes, and no bank is visited
\* twice.
C26_Terminates ==
  /\ [](LoopInvariant /\ ChunkSizes /\ VisitOnce)
  /\ (cmd # "none") ~> Ended

\* C26's case: a command has ended after two banks and at least four
\* device calls.
C26_Witness ==
  /\ pc = "done"
  /\ ~Failed
  /\ Len(subs) = 2
  /\ Len(ops) >= 4
  /\ LoopInvariant
  /\ bk.count = 0

\* C27: when readWriteHelper fails on a topology that has a bank, the in/out
\* size is still the value passed, and the in/out start address is the
\* defaulted start: the lowest bank's base for a start of 0, else the start
\* passed.
C27_FailureFrame ==
  (HelperFailed /\ subs = <<>> /\ BankSet(raw_mem) # {}) =>
    /\ sizeBytes = PassedSize
    /\ baseAddress = (IF PassedStart = 0 THEN LowestBase(raw_mem) ELSE PassedStart)

\* C27's case: a start of 0 on a topology whose lowest bank is not at 0x0,
\* and a size greater than the capacity.
C27_Witness ==
  /\ HelperFailed
  /\ subs = <<>>
  /\ BankSet(raw_mem) # {}
  /\ PassedStart = 0
  /\ LowestBase(raw_mem) # 0
  /\ baseAddress = LowestBase(raw_mem)
  /\ Holders(raw_mem, baseAddress) # {}
  /\ PassedSize > Capacity(raw_mem, baseAddress)
  /\ sizeBytes = PassedSize

\* readBank could not allocate its buffer: execute's error line without one
\* of readBank's.
NoMemory ==
  /\ \E i \in DOMAIN out : out[i].msg = "ReadError"
  /\ \A i \in DOMAIN out : out[i].msg \notin {"ChunkError", "BankShort"}

\* The file has refused a block: its error line is printed.
FileRefused == \E i \in DOMAIN out : out[i].msg = "FileWriteError"

\* C28: a read in which a write to the output file fails, and no device
\* call and no allocation does, is carried on to its end: every block is
\* still asked of the device and counted, readBank returns 0 and the command
\* ends with its summary line, which gives the whole resolved size, while
\* the file holds less.
C28_FileFailureIgnored ==
  (cmd = "read" /\ HelperOk /\ pc = "done" /\ FileRefused /\ ~SomeFailed
     /\ ~NoMemory) =>
    /\ ~Failed
    /\ SumOk(ops, Len(ops)) = ResolvedSize
    /\ out[Len(out)] = Msg("ReadSaved", ResolvedSize, 0, 0)
    /\ SumFile(outFile, Len(outFile)) < ResolvedSize

\* C28's case: the file takes the first block and refuses the second; the
\* device is asked for a third block and for the next bank, and the command
\* ends.
C28_Witness ==
  /\ cmd = "read"
  /\ HelperOk
  /\ pc = "done"
  /\ FileRefused
  /\ ~Failed
  /\ Len(outFile) = 1
  /\ Len(ops) >= 4
  /\ Len(subs) = 2
  /\ subs[2].len > 0

====
